---- MODULE Spec2Model ----
(***************************************************************************)
(* Model of the M-Shika finance tracker: the M-Pesa SMS parser             *)
(* (parseMpesaSms), the SMS parser form and the add-transaction form; the  *)
(* useUserData hook with the database behind it, and the Dashboard         *)
(* handlers that call it.                                                  *)
(*                                                                         *)
(* Texts are sequences of one-character strings, so that toLowerCase, the  *)
(* regular expressions and parseFloat are computed character by character. *)
(* Numbers are decimal values [nan, m, e] standing for m * 10^(-e), kept   *)
(* normalised (no trailing zero in the fraction); JavaScript's -0 compares *)
(* equal to 0 everywhere in the program and is represented as 0.           *)
(*                                                                         *)
(* An asynchronous call is a record in `loads` or `requests`: it is issued *)
(* by one action, answered by the database in another (Respond, LoadQuery) *)
(* and continued in a third (Settle, LoadFinish), so that calls overlap.   *)
(* Rows are records whose fields are the columns the program wrote.        *)
(***************************************************************************)
EXTENDS Integers, Sequences, FiniteSets, TLC

VARIABLES
    smsText,            \* SmsParserForm: the textarea content
    parsedTransaction,  \* SmsParserForm: Null or <<result of parseMpesaSms>>
    smsCategory,        \* SmsParserForm: the selected category ("" = none)
    now,                \* the wall clock read by new Date()
    parseCalls,         \* number of parseMpesaSms calls made so far
    prevParsed,         \* the value returned by the call before the last one
    formAmount,         \* AddTransactionForm: the amount input (a string)
    formCategory,       \* AddTransactionForm: the selected category
    formIsIncome,       \* AddTransactionForm: the Expense/Income toggle
    formPaymentMethod,  \* AddTransactionForm: the selected payment method
    formDescription,    \* AddTransactionForm: the description input
    submitted,          \* the records handed to onSubmit, oldest first
    user,               \* useAuth(): the id of the logged-in user, "" for none
    store,              \* the database: the rows of each table
    nextId,             \* the next id the database hands out
    transactions,       \* useUserData: the cached transactions
    savingsGoals,       \* useUserData: the cached savings goals
    budgetTargets,      \* useUserData: the cached budget targets
    incomeStreams,      \* useUserData: the cached income streams
    loading,            \* useUserData: the loading flag
    loads,              \* the loadUserData calls in flight
    requests,           \* the insert/update/delete calls in flight
    showAddForm,        \* Dashboard: the add-transaction dialog is open
    showSmsParser,      \* Dashboard: the SMS parser dialog is open
    toasts,             \* Dashboard: the toasts shown, oldest first
    events,             \* number of calls made so far (numbers the calls)
    saved,              \* the rows (table, id, user) whose add call has returned
                        \* successfully and which no delete has removed
    newBudget           \* BudgetTracker: the category chosen in the add form
                        \* ("" = none)

vars == <<smsText, parsedTransaction, smsCategory, now, parseCalls, prevParsed,
          formAmount, formCategory, formIsIncome, formPaymentMethod,
          formDescription, submitted,
          user, store, nextId, transactions, savingsGoals, budgetTargets,
          incomeStreams, loading, loads, requests, showAddForm, showSmsParser,
          toasts, events, saved, newBudget>>

cacheVars == <<transactions, savingsGoals, budgetTargets, incomeStreams>>
dashVars == <<showAddForm, showSmsParser, toasts>>
dataVars == <<user, store, nextId, cacheVars, loading, loads, requests,
              dashVars, events, saved, newBudget>>

smsVars == <<smsText, parsedTransaction, smsCategory, parseCalls, prevParsed>>
formVars == <<formAmount, formCategory, formIsIncome, formPaymentMethod,
              formDescription>>

----------------------------------------------------------------------------
(* Bounds *)

MaxFrags == 2       \* a text is at most this many fragments long
MaxClock == 1       \* the clock runs from 0 to MaxClock
MaxParses == 2      \* parseMpesaSms is called at most this many times
MaxSubmits == 1     \* at most this many records are submitted
MaxEvents == 3      \* at most this many calls are made on Dashboard and the hook

----------------------------------------------------------------------------
(* The state of useUserData and Dashboard when nobody is logged in *)

NoUser == ""

Tables == {"transactions", "savings_goals", "budget_targets", "income_streams"}

EmptyStore == [t \in Tables |-> {}]

\* useUserData's and Dashboard's useState values, after the effect that runs
\* for no user has set loading to false
HookInit ==
    /\ user = NoUser
    /\ nextId = 1 + Cardinality(UNION {store[t] : t \in Tables})
    /\ transactions = <<>>
    /\ savingsGoals = <<>>
    /\ budgetTargets = <<>>
    /\ incomeStreams = <<>>
    /\ loading = FALSE
    /\ loads = {}
    /\ requests = {}
    /\ showAddForm = FALSE
    /\ showSmsParser = FALSE
    /\ toasts = <<>>
    /\ events = 0
    /\ newBudget = ""
    /\ saved = {}

----------------------------------------------------------------------------
(* Characters and strings *)

Null == <<>>

Digit == {"0", "1", "2", "3", "4", "5", "6", "7", "8", "9"}
DigitOrComma == Digit \cup {","}
WhiteSpace == {" ", "\n", "\t"}

UpperCase == <<"A","B","C","D","E","F","G","H","I","J","K","L","M",
               "N","O","P","Q","R","S","T","U","V","W","X","Y","Z">>
LowerCase == <<"a","b","c","d","e","f","g","h","i","j","k","l","m",
               "n","o","p","q","r","s","t","u","v","w","x","y","z">>

toLowerCaseChar(c) ==
    IF \E i \in 1..26 : UpperCase[i] = c
    THEN LowerCase[CHOOSE i \in 1..26 : UpperCase[i] = c]
    ELSE c

RECURSIVE toLowerCase(_)
toLowerCase(s) ==
    IF s = <<>> THEN <<>>
    ELSE Append(toLowerCase(SubSeq(s, 1, Len(s) - 1)), toLowerCaseChar(s[Len(s)]))

\* s has the literal p at position i
StartsWithAt(s, i, p) ==
    /\ i >= 1
    /\ i + Len(p) - 1 <= Len(s)
    /\ SubSeq(s, i, i + Len(p) - 1) = p

includes(s, p) == \E i \in 1..Len(s) : StartsWithAt(s, i, p)

\* the index after the longest run of characters of S that starts at i
RECURSIVE RunEnd(_, _, _)
RunEnd(s, i, S) ==
    IF i <= Len(s) /\ s[i] \in S THEN RunEnd(s, i + 1, S) ELSE i

\* the index after the longest run of characters outside S that starts at i
RECURSIVE RunEndNot(_, _, _)
RunEndNot(s, i, S) ==
    IF i <= Len(s) /\ s[i] \notin S THEN RunEndNot(s, i + 1, S) ELSE i

\* str.replace(',', ''): the first separator only
RemoveFirstComma(s) ==
    IF \E i \in 1..Len(s) : s[i] = ","
    THEN LET i == CHOOSE j \in 1..Len(s) :
                      s[j] = "," /\ \A k \in 1..(j - 1) : s[k] # ","
         IN SubSeq(s, 1, i - 1) \o SubSeq(s, i + 1, Len(s))
    ELSE s

\* str.replace(/,/g, '')
RemoveCommas(s) == SelectSeq(s, LAMBDA c : c # ",")

\* String.prototype.trim
trim(s) ==
    LET a == RunEnd(s, 1, WhiteSpace)
        b == CHOOSE j \in 0..Len(s) :
                 /\ \A k \in (j + 1)..Len(s) : s[k] \in WhiteSpace
                 /\ (j = 0 \/ s[j] \notin WhiteSpace)
    IN SubSeq(s, a, b)

----------------------------------------------------------------------------
(* Numbers *)

NaN == [nan |-> TRUE, m |-> 0, e |-> 0]

RECURSIVE Norm(_, _)
Norm(m, e) ==
    IF e > 0 /\ m % 10 = 0 THEN Norm(m \div 10, e - 1)
    ELSE [nan |-> FALSE, m |-> m, e |-> e]

Num(n) == [nan |-> FALSE, m |-> n, e |-> 0]

DigitValue(c) == CHOOSE v \in 0..9 : <<"0","1","2","3","4","5","6","7","8","9">>[v + 1] = c

RECURSIVE DigitsValue(_)
DigitsValue(ds) ==
    IF ds = <<>> THEN 0
    ELSE 10 * DigitsValue(SubSeq(ds, 1, Len(ds) - 1)) + DigitValue(ds[Len(ds)])

\* parseFloat on a decimal string: leading white space, an optional sign,
\* digits, an optional fraction; NaN when there is no digit at all.
parseFloat(str) ==
    LET s0 == RunEnd(str, 1, WhiteSpace)
        neg == s0 <= Len(str) /\ str[s0] = "-"
        s1 == IF s0 <= Len(str) /\ str[s0] \in {"-", "+"} THEN s0 + 1 ELSE s0
        ie == RunEnd(str, s1, Digit)
        hasDot == ie <= Len(str) /\ str[ie] = "."
        fe == IF hasDot THEN RunEnd(str, ie + 1, Digit) ELSE ie
        intDs == SubSeq(str, s1, ie - 1)
        fracDs == IF hasDot THEN SubSeq(str, ie + 1, fe - 1) ELSE <<>>
        v == DigitsValue(intDs \o fracDs)
    IN IF intDs = <<>> /\ fracDs = <<>> THEN NaN
       ELSE Norm(IF neg THEN -v ELSE v, Len(fracDs))

Negate(x) == IF x.nan THEN x ELSE [x EXCEPT !.m = -x.m]
Abs(x) == IF x.nan THEN x ELSE [x EXCEPT !.m = IF x.m < 0 THEN -x.m ELSE x.m]
IsPositive(x) == ~x.nan /\ x.m > 0      \* x > 0
IsNegative(x) == ~x.nan /\ x.m < 0      \* x < 0

----------------------------------------------------------------------------
(* The regular expressions of parseMpesaSms *)

\* /ksh\s?([0-9,]+\.?[0-9]*)/ tried at position i: the start of the capture
\* group.  \s? gives its space back when no [0-9,] follows it, and then the
\* group meets the space itself, so the group starts after "ksh" and after
\* the one optional white-space character.
AmountGroupStart(s, i) ==
    IF i + 3 <= Len(s) /\ s[i + 3] \in WhiteSpace THEN i + 4 ELSE i + 3

AmountMatchesAt(s, i) ==
    /\ StartsWithAt(s, i, <<"k","s","h">>)
    /\ AmountGroupStart(s, i) <= Len(s)
    /\ s[AmountGroupStart(s, i)] \in DigitOrComma

AmountGroupAt(s, i) ==
    LET g == AmountGroupStart(s, i)
        e1 == RunEnd(s, g, DigitOrComma)
        e2 == IF e1 <= Len(s) /\ s[e1] = "." THEN e1 + 1 ELSE e1
        e3 == RunEnd(s, e2, Digit)
    IN SubSeq(s, g, e3 - 1)

\* sms.match(/ksh\s?([0-9,]+\.?[0-9]*)/): Null, or <<group 1>> of the
\* leftmost match
RECURSIVE amountMatchFrom(_, _)
amountMatchFrom(s, i) ==
    IF i > Len(s) THEN Null
    ELSE IF AmountMatchesAt(s, i) THEN <<AmountGroupAt(s, i)>>
    ELSE amountMatchFrom(s, i + 1)

amountMatch(s) == amountMatchFrom(s, 1)

\* /<literal>([^.]+)/: Null, or <<group 1>> of the leftmost match
LiteralThenGroupAt(s, i, lit) ==
    /\ StartsWithAt(s, i, lit)
    /\ i + Len(lit) <= Len(s)
    /\ s[i + Len(lit)] # "."

RECURSIVE LiteralThenGroupFrom(_, _, _)
LiteralThenGroupFrom(s, i, lit) ==
    IF i > Len(s) THEN Null
    ELSE IF LiteralThenGroupAt(s, i, lit)
         THEN <<SubSeq(s, i + Len(lit), RunEndNot(s, i + Len(lit), {"."}) - 1)>>
    ELSE LiteralThenGroupFrom(s, i + 1, lit)

LiteralThenGroup(s, lit) == LiteralThenGroupFrom(s, 1, lit)

\* sms.match(/sent to ([^.]+)/)
sentToMatch(s) == LiteralThenGroup(s, <<"s","e","n","t"," ","t","o"," ">>)

\* sms.match(/pay bill for ([^.]+)/)
paybillMatch(s) ==
    LiteralThenGroup(s, <<"p","a","y"," ","b","i","l","l"," ","f","o","r"," ">>)

\* /received[^from]*from ([^.]+)/ tried at position i.  [^from] is the class
\* of characters other than f, r, o, m; "from " starts with f, so the greedy
\* run can only end where the longest run ends.
ReceivedFromStart(s, i) == RunEndNot(s, i + 8, {"f", "r", "o", "m"})

ReceivedFromMatchesAt(s, i) ==
    /\ StartsWithAt(s, i, <<"r","e","c","e","i","v","e","d">>)
    /\ LET f == ReceivedFromStart(s, i)
       IN /\ StartsWithAt(s, f, <<"f","r","o","m"," ">>)
          /\ f + 5 <= Len(s)
          /\ s[f + 5] # "."

\* sms.match(/received[^from]*from ([^.]+)/)
RECURSIVE receivedFromMatchFrom(_, _)
receivedFromMatchFrom(s, i) ==
    IF i > Len(s) THEN Null
    ELSE IF ReceivedFromMatchesAt(s, i)
         THEN LET g == ReceivedFromStart(s, i) + 5
              IN <<SubSeq(s, g, RunEndNot(s, g, {"."}) - 1)>>
    ELSE receivedFromMatchFrom(s, i + 1)

receivedFromMatch(s) == receivedFromMatchFrom(s, 1)

----------------------------------------------------------------------------
(* parseMpesaSms *)

isSent(sms) ==
    \/ includes(sms, <<"s","e","n","t"," ","t","o">>)
    \/ includes(sms, <<"p","a","y"," ","b","i","l","l">>)
    \/ includes(sms, <<"b","u","y"," ","g","o","o","d","s">>)

\* a parser that knows the long inbound marker only
isReceivedLongMarkerOnly(sms) ==
    includes(sms, <<"y","o","u"," ","h","a","v","e"," ","r","e","c","e","i","v","e","d">>)

isReceived(sms) ==
    \/ includes(sms, <<"r","e","c","e","i","v","e","d">>)
    \/ includes(sms, <<"y","o","u"," ","h","a","v","e"," ","r","e","c","e","i","v","e","d">>)

GenericDescription ==
    <<"M","-","P","e","s","a"," ","t","r","a","n","s","a","c","t","i","o","n">>
SentToPrefix == <<"S","e","n","t"," ","t","o"," ">>
ReceivedFromPrefix == <<"R","e","c","e","i","v","e","d"," ","f","r","o","m"," ">>
PayBillPrefix == <<"P","a","y"," ","b","i","l","l",":"," ">>

\* a parser that tries the received-from template before the sent-to one
describeReceivedFirst(sms) ==
    IF receivedFromMatch(sms) # Null
    THEN ReceivedFromPrefix \o trim(receivedFromMatch(sms)[1])
    ELSE IF sentToMatch(sms) # Null THEN SentToPrefix \o trim(sentToMatch(sms)[1])
    ELSE IF paybillMatch(sms) # Null
         THEN PayBillPrefix \o trim(paybillMatch(sms)[1])
    ELSE GenericDescription

describe(sms) ==
    IF sentToMatch(sms) # Null THEN SentToPrefix \o trim(sentToMatch(sms)[1])
    ELSE IF receivedFromMatch(sms) # Null
         THEN ReceivedFromPrefix \o trim(receivedFromMatch(sms)[1])
    ELSE IF paybillMatch(sms) # Null
         THEN PayBillPrefix \o trim(paybillMatch(sms)[1])
    ELSE GenericDescription

\* the amount of the result: parseFloat of group 1 without its commas, kept
\* for a text marked as received and negated for every other text
signedAmount(sms, group) ==
    LET amount == parseFloat(RemoveCommas(group))
    IN IF isReceived(sms) THEN amount ELSE Negate(amount)

\* a parser that writes the time of the call into the description
parseMpesaSmsStamped(text, at) ==
    LET sms == toLowerCase(text)
    IN IF amountMatch(sms) = Null THEN Null
       ELSE <<[amount |-> signedAmount(sms, amountMatch(sms)[1]),
               description |-> Append(describe(sms), IF at % 2 = 0 THEN "0" ELSE "1"),
               payment_method |-> "M-Pesa",
               date |-> at]>>

\* parseMpesaSms(smsText) called when the clock shows `at`
parseMpesaSms(text, at) ==
    LET sms == toLowerCase(text)
    IN IF amountMatch(sms) = Null THEN Null
       ELSE <<[amount |-> signedAmount(sms, amountMatch(sms)[1]),
               description |-> describe(sms),
               payment_method |-> "M-Pesa",
               date |-> at]>>

----------------------------------------------------------------------------
(* Input texts: concatenations of at most MaxFrags fragments *)

Fragments == {
    <<"K","s","h","1",",","2","0","0",".","0","0"," ","s","e","n","t"," ","t","o"," ","J","O","H","N">>,
    <<"r","e","c","e","i","v","e","d"," ">>,
    <<"r","e","c","e","i","v","e","d"," ","K","s","h","5","0","0"," ","f","r","o","m"," ","J","A","N","E">>,
    <<"K","s","h","5","0","0">>,
    <<"k","s","h",",">>,
    <<"K","s","h","1","2",",","3","4","5",".","6","7">>,
    <<".", " ">>,
    <<"p","a","y"," ","b","i","l","l"," ","f","o","r"," ","K","P","L","C">>,
    <<",","0">>,
    <<"b","u","y"," ","g","o","o","d","s">>,
    <<"K","S","H"," ">> }

RECURSIVE TextsOf(_)
TextsOf(n) ==
    IF n = 0 THEN {<<>>}
    ELSE LET shorter == TextsOf(n - 1)
         IN shorter \cup {t \o f : t \in shorter, f \in Fragments}

Texts == TextsOf(MaxFrags)

----------------------------------------------------------------------------
(* SmsParserForm *)

\* the category suggested from the description of a parse result
suggestCategory(description) ==
    LET desc == toLowerCase(description)
    IN IF \/ includes(desc, <<"f","o","o","d">>)
          \/ includes(desc, <<"r","e","s","t","a","u","r","a","n","t">>)
          \/ includes(desc, <<"h","o","t","e","l">>)
       THEN "Food"
       ELSE IF \/ includes(desc, <<"t","r","a","n","s","p","o","r","t">>)
               \/ includes(desc, <<"m","a","t","a","t","u">>)
               \/ includes(desc, <<"u","b","e","r">>)
       THEN "Transport"
       ELSE IF \/ includes(desc, <<"a","i","r","t","i","m","e">>)
               \/ includes(desc, <<"b","u","n","d","l","e">>)
       THEN "Airtime"
       ELSE "Other"

\* the Parse SMS button (disabled while the text is blank)
handleParse ==
    /\ trim(smsText) # <<>>
    /\ parseCalls < MaxParses
    /\ LET parsed == parseMpesaSms(smsText, now)
       IN /\ parsedTransaction' = parsed
          /\ smsCategory' = IF parsed # Null /\ parsed[1].description # <<>>
                            THEN suggestCategory(parsed[1].description)
                            ELSE smsCategory
    /\ prevParsed' = parsedTransaction
    /\ parseCalls' = parseCalls + 1
    /\ UNCHANGED <<smsText, now, submitted>>
    /\ UNCHANGED formVars
    /\ UNCHANGED dataVars

\* time passes
Tick ==
    /\ now < MaxClock
    /\ now' = now + 1
    /\ UNCHANGED <<submitted>>
    /\ UNCHANGED smsVars
    /\ UNCHANGED formVars
    /\ UNCHANGED dataVars

----------------------------------------------------------------------------
(* AddTransactionForm *)

\* values of the amount input (type="number": empty or a decimal number)
AmountInputs == {<<>>, <<"0">>, <<"5","0">>, <<"-","5","0">>, <<"1",".","5">>}

\* TRANSACTION_CATEGORIES offered by the category select (all but "Income")
FormCategories == {"Food", "Transport"}

PAYMENT_METHODS == {"M-Pesa", "Cash", "Bank", "Card"}

Descriptions == {"", "Lunch"}

\* the form is used until MaxSubmits records have been submitted
FormOpen == Len(submitted) < MaxSubmits

setAmount(a) ==
    /\ FormOpen
    /\ formAmount' = a
    /\ UNCHANGED <<formCategory, formIsIncome, formPaymentMethod, formDescription>>
    /\ UNCHANGED <<now, submitted>>
    /\ UNCHANGED smsVars
    /\ UNCHANGED dataVars

\* the category select is rendered for an expense only
setCategory(c) ==
    /\ FormOpen
    /\ ~formIsIncome
    /\ formCategory' = c
    /\ UNCHANGED <<formAmount, formIsIncome, formPaymentMethod, formDescription>>
    /\ UNCHANGED <<now, submitted>>
    /\ UNCHANGED smsVars
    /\ UNCHANGED dataVars

setIsIncome(b) ==
    /\ FormOpen
    /\ formIsIncome' = b
    /\ UNCHANGED <<formAmount, formCategory, formPaymentMethod, formDescription>>
    /\ UNCHANGED <<now, submitted>>
    /\ UNCHANGED smsVars
    /\ UNCHANGED dataVars

setPaymentMethod(m) ==
    /\ FormOpen
    /\ formPaymentMethod' = m
    /\ UNCHANGED <<formAmount, formCategory, formIsIncome, formDescription>>
    /\ UNCHANGED <<now, submitted>>
    /\ UNCHANGED smsVars
    /\ UNCHANGED dataVars

setDescription(d) ==
    /\ FormOpen
    /\ formDescription' = d
    /\ UNCHANGED <<formAmount, formCategory, formIsIncome, formPaymentMethod>>
    /\ UNCHANGED <<now, submitted>>
    /\ UNCHANGED smsVars
    /\ UNCHANGED dataVars

\* the record AddTransactionForm.handleSubmit builds
formTransaction ==
    [amount |-> IF formIsIncome THEN Abs(parseFloat(formAmount))
                ELSE Negate(Abs(parseFloat(formAmount))),
     category |-> IF formIsIncome THEN "Income" ELSE formCategory,
     description |-> formDescription,
     date |-> now,
     paymentMethod |-> formPaymentMethod]

\* AddTransactionForm.handleSubmit: returns early without an amount or a
\* category, otherwise hands the record to onSubmit.  `asIncome` keeps the
\* type the user had chosen for the record.
AddTransactionForm_handleSubmit ==
    /\ FormOpen
    /\ formAmount # <<>>
    /\ formCategory # ""
    /\ submitted' = Append(submitted, [form |-> "add",
                                       asIncome |-> formIsIncome,
                                       transaction |-> formTransaction])
    /\ UNCHANGED now
    /\ UNCHANGED formVars
    /\ UNCHANGED smsVars
    /\ UNCHANGED dataVars

InitAddForm ==
    /\ smsText = <<>>
    /\ parsedTransaction = Null
    /\ smsCategory = ""
    /\ now = 0
    /\ parseCalls = 0
    /\ prevParsed = Null
    /\ formAmount = <<>>
    /\ formCategory = ""
    /\ formIsIncome = FALSE
    /\ formPaymentMethod = "M-Pesa"
    /\ formDescription = ""
    /\ submitted = <<>>
    /\ store = EmptyStore
    /\ HookInit

NextAddForm ==
    \/ \E a \in AmountInputs : setAmount(a)
    \/ \E c \in FormCategories : setCategory(c)
    \/ \E b \in BOOLEAN : setIsIncome(b)
    \/ \E m \in PAYMENT_METHODS : setPaymentMethod(m)
    \/ \E d \in Descriptions : setDescription(d)
    \/ AddTransactionForm_handleSubmit
    \/ Tick

SpecAddForm == InitAddForm /\ [][NextAddForm]_vars

----------------------------------------------------------------------------
(* The parser on its own: a text is drawn, then parsed and parsed again *)

InitParser ==
    /\ smsText \in Texts
    /\ parsedTransaction = Null
    /\ smsCategory = ""
    /\ now = 0
    /\ parseCalls = 0
    /\ prevParsed = Null
    /\ formAmount = <<>>
    /\ formCategory = ""
    /\ formIsIncome = FALSE
    /\ formPaymentMethod = "M-Pesa"
    /\ formDescription = ""
    /\ submitted = <<>>
    /\ store = EmptyStore
    /\ HookInit

NextParser == handleParse \/ Tick

SpecParser == InitParser /\ [][NextParser]_vars

----------------------------------------------------------------------------
(* SmsParserForm as the user drives it: type, parse, pick a category, add *)

\* texts typed into the textarea
SmsFormTexts == Fragments \cup {<<>>}

\* categories offered by the select: INCOME_CATEGORIES for a positive amount,
\* EXPENSE_CATEGORIES otherwise (two of each list)
SmsIncomeCategories == {"Salary", "Other"}
SmsExpenseCategories == {"Food", "Other"}

\* the form is used until MaxSubmits records have been submitted
SmsFormOpen == Len(submitted) < MaxSubmits

\* the textarea's onChange
setSmsText(t) ==
    /\ SmsFormOpen
    /\ smsText' = t
    /\ UNCHANGED <<parsedTransaction, smsCategory, parseCalls, prevParsed>>
    /\ UNCHANGED <<now, submitted>>
    /\ UNCHANGED formVars
    /\ UNCHANGED dataVars

\* the category select, rendered inside the parsed-transaction panel only
setSmsCategory(c) ==
    /\ SmsFormOpen
    /\ parsedTransaction # Null
    /\ c \in (IF IsPositive(parsedTransaction[1].amount)
              THEN SmsIncomeCategories ELSE SmsExpenseCategories)
    /\ smsCategory' = c
    /\ UNCHANGED <<smsText, parsedTransaction, parseCalls, prevParsed>>
    /\ UNCHANGED <<now, submitted>>
    /\ UNCHANGED formVars
    /\ UNCHANGED dataVars

\* the record SmsParserForm.handleSubmit builds, without the fixed label
smsTransactionUnlabelled(parsed, category) ==
    [amount |-> parsed.amount,
     category |-> category,
     description |-> parsed.description,
     date |-> parsed.date,
     payment_method |-> ""]

\* the record SmsParserForm.handleSubmit builds
smsTransaction(parsed, category) ==
    [amount |-> parsed.amount,
     category |-> category,
     description |-> parsed.description,
     date |-> parsed.date,
     payment_method |-> "M-Pesa"]

\* SmsParserForm.handleSubmit: returns early without a parse result or a
\* category, otherwise hands the record to onSubmit.  `asIncome` keeps the
\* type the panel displayed for the record.
SmsParserForm_handleSubmit ==
    /\ SmsFormOpen
    /\ parsedTransaction # Null
    /\ smsCategory # ""
    /\ submitted' = Append(submitted,
            [form |-> "sms",
             asIncome |-> IsPositive(parsedTransaction[1].amount),
             transaction |-> smsTransaction(parsedTransaction[1], smsCategory)])
    /\ UNCHANGED now
    /\ UNCHANGED smsVars
    /\ UNCHANGED formVars
    /\ UNCHANGED dataVars

\* what SmsParserForm renders: the textarea, the Parse SMS button and, for a
\* non-null parse result only, the parsed-transaction panel.  The title, the
\* description and the example text are the same in every state.
SmsParserFormView(text, parsed, category) ==
    [textarea |-> text,
     parseDisabled |-> trim(text) = <<>>,
     panel |-> IF parsed = Null THEN Null
               ELSE <<[amount |-> Abs(parsed[1].amount),
                       type |-> IF IsPositive(parsed[1].amount)
                                THEN "Income" ELSE "Expense",
                       description |-> parsed[1].description,
                       category |-> category,
                       addDisabled |-> category = ""]>>]

InitSmsForm ==
    /\ smsText = <<>>
    /\ parsedTransaction = Null
    /\ smsCategory = ""
    /\ now = 0
    /\ parseCalls = 0
    /\ prevParsed = Null
    /\ formAmount = <<>>
    /\ formCategory = ""
    /\ formIsIncome = FALSE
    /\ formPaymentMethod = "M-Pesa"
    /\ formDescription = ""
    /\ submitted = <<>>
    /\ store = EmptyStore
    /\ HookInit

NextSmsForm ==
    \/ \E t \in SmsFormTexts : setSmsText(t)
    \/ handleParse
    \/ \E c \in SmsIncomeCategories \cup SmsExpenseCategories : setSmsCategory(c)
    \/ SmsParserForm_handleSubmit
    \/ Tick

SpecSmsForm == InitSmsForm /\ [][NextSmsForm]_vars

----------------------------------------------------------------------------
(* The database behind the supabase client *)

Users == {"A", "B"}

\* the enumerations of a finite set
Orders(S) ==
    {q \in [1..Cardinality(S) -> S] :
        \A i, j \in 1..Cardinality(S) : i # j => q[i] # q[j]}

\* CREATE TABLE transactions of the database setup: its columns, and the
\* columns that are NOT NULL and have no default
TransactionsColumns ==
    {"id", "user_id", "amount", "category", "type", "description", "date",
     "created_at"}
TransactionsRequired == {"user_id", "amount", "category", "type"}

\* the table takes the row: no unknown column, every required column, and
\* the CHECK on type
TransactionsAccepts(row) ==
    /\ DOMAIN row \subseteq TransactionsColumns
    /\ TransactionsRequired \subseteq DOMAIN row
    /\ row.type \in {"income", "expense"}

\* select('*').eq('user_id', u): the rows of user u, in an order the database
\* chooses; the transactions are ordered by date, newest first
SelectResults(t, u) ==
    {q \in Orders({row \in store[t] : row.user_id = u}) :
        t = "transactions"
            => \A i \in 1..(Len(q) - 1) : q[i].date >= q[i + 1].date}

\* the rows an update or a delete with .eq('id', id).eq('user_id', u) matches,
\* without the user_id filter
MatchedById(t, id, u) == {row \in store[t] : row.id = id}

\* the rows an update or a delete with .eq('id', id).eq('user_id', u) matches
Matched(t, id, u) == {row \in store[t] : row.id = id /\ row.user_id = u}

\* insert([row]) that answers without storing the row
InsertedUnsaved(t, row) == store

\* insert([row]): the table with the new row, which gets the next id
Inserted(t, row) ==
    [store EXCEPT ![t] = @ \cup {row @@ [id |-> nextId]}]

\* update(cols) on the matched rows
Updated(t, id, u, cols) ==
    [store EXCEPT ![t] = (@ \ Matched(t, id, u))
                            \cup {cols @@ row : row \in Matched(t, id, u)}]

\* delete() of the matched rows
Deleted(t, id, u) == [store EXCEPT ![t] = @ \ Matched(t, id, u)]

\* The database answers the call r: with an error and no change, or by doing
\* what was asked.  insert and update end in .select().single(), which is an
\* error unless exactly one row comes back.  A row that a delete removes
\* leaves `saved`.
Respond(r) ==
    /\ r \in requests
    /\ r.status = "sent"
    /\ \/ /\ requests' = (requests \ {r}) \cup {[r EXCEPT !.status = "error"]}
          /\ UNCHANGED <<store, nextId>>
       \/ /\ r.op = "insert"
          /\ store' = Inserted(r.table, r.cols)
          /\ nextId' = nextId + 1
          /\ requests' = (requests \ {r}) \cup
                 {[r EXCEPT !.status = "ok",
                            !.data = <<r.cols @@ [id |-> nextId]>>]}
       \/ /\ r.op = "update"
          /\ store' = Updated(r.table, r.id, r.user, r.cols)
          /\ nextId' = nextId
          /\ LET hit == Matched(r.table, r.id, r.user)
             IN requests' = (requests \ {r}) \cup
                 {IF Cardinality(hit) = 1
                  THEN [r EXCEPT !.status = "ok",
                                 !.data = <<r.cols @@ (CHOOSE row \in hit : TRUE)>>]
                  ELSE [r EXCEPT !.status = "error"]}
       \/ /\ r.op = "delete"
          /\ store' = Deleted(r.table, r.id, r.user)
          /\ nextId' = nextId
          /\ requests' = (requests \ {r}) \cup {[r EXCEPT !.status = "ok"]}
    /\ saved' = IF r.op = "delete" /\ store' # store
                THEN saved \ {<<r.table, r.id, r.user>>} ELSE saved
    /\ UNCHANGED <<user, cacheVars, loading, loads, dashVars, events>>
    /\ UNCHANGED <<now, submitted, newBudget>>
    /\ UNCHANGED smsVars
    /\ UNCHANGED formVars

----------------------------------------------------------------------------
(* useUserData: loadUserData *)

\* the order in which loadUserData queries the tables
LoadOrder == <<"transactions", "savings_goals", "budget_targets",
               "income_streams">>

\* loadUserData up to its first await: nothing without a user, otherwise
\* loading is set and the first query goes out.  `saved` keeps which rows
\* had been added when the call began.  While loading is set Dashboard
\* renders the spinner alone, so BudgetTracker is unmounted and its form
\* starts from its useState value again.
loadUserDataBegins(u) ==
    IF u = NoUser
    THEN UNCHANGED <<loading, loads, newBudget>>
    ELSE /\ loading' = TRUE
         /\ newBudget' = ""
         /\ loads' = loads \cup {[n |-> events + 1, user |-> u, pc |-> 1,
                                  data |-> [t \in Tables |-> <<>>],
                                  saved |-> saved]}

\* one of the four queries of the call l is answered, and the rows of an
\* answer are put into the table's list at once
LoadQueryEager(l) ==
    /\ l \in loads
    /\ l.pc <= Len(LoadOrder)
    /\ \/ /\ loads' = loads \ {l}
          /\ loading' = FALSE
          /\ UNCHANGED cacheVars
       \/ /\ \E q \in SelectResults(LoadOrder[l.pc], l.user) :
                /\ loads' = (loads \ {l}) \cup
                      {[l EXCEPT !.pc = @ + 1, !.data[LoadOrder[l.pc]] = q]}
                /\ transactions' = IF l.pc = 1 THEN q ELSE transactions
                /\ savingsGoals' = IF l.pc = 2 THEN q ELSE savingsGoals
                /\ budgetTargets' = IF l.pc = 3 THEN q ELSE budgetTargets
                /\ incomeStreams' = IF l.pc = 4 THEN q ELSE incomeStreams
          /\ UNCHANGED loading
    /\ UNCHANGED <<user, store, nextId, requests, dashVars, events, saved>>
    /\ UNCHANGED <<now, submitted, newBudget>>
    /\ UNCHANGED smsVars
    /\ UNCHANGED formVars

\* one of the four queries of the call l is answered: with an error, which
\* ends the call (catch, then finally), or with the rows of l.user
LoadQuery(l) ==
    /\ l \in loads
    /\ l.pc <= Len(LoadOrder)
    /\ \/ /\ loads' = loads \ {l}
          /\ loading' = FALSE
       \/ /\ \E q \in SelectResults(LoadOrder[l.pc], l.user) :
                loads' = (loads \ {l}) \cup
                    {[l EXCEPT !.pc = @ + 1, !.data[LoadOrder[l.pc]] = q]}
          /\ UNCHANGED loading
    /\ UNCHANGED <<user, store, nextId, cacheVars, requests, dashVars, events,
                   saved>>
    /\ UNCHANGED <<now, submitted, newBudget>>
    /\ UNCHANGED smsVars
    /\ UNCHANGED formVars

\* after the fourth answer the call l replaces the four lists and clears
\* loading
LoadFinish(l) ==
    /\ l \in loads
    /\ l.pc > Len(LoadOrder)
    /\ transactions' = l.data["transactions"]
    /\ savingsGoals' = l.data["savings_goals"]
    /\ budgetTargets' = l.data["budget_targets"]
    /\ incomeStreams' = l.data["income_streams"]
    /\ loading' = FALSE
    /\ loads' = loads \ {l}
    /\ UNCHANGED <<user, store, nextId, requests, dashVars, events, saved>>
    /\ UNCHANGED <<now, submitted, newBudget>>
    /\ UNCHANGED smsVars
    /\ UNCHANGED formVars

\* the hook's refreshData
refreshData ==
    /\ events < MaxEvents
    /\ user # NoUser
    /\ loadUserDataBegins(user)
    /\ events' = events + 1
    /\ UNCHANGED <<user, store, nextId, cacheVars, requests, dashVars, saved>>
    /\ UNCHANGED <<now, submitted>>
    /\ UNCHANGED smsVars
    /\ UNCHANGED formVars

\* useAuth() yields another user u (a sign-in, a switch of accounts, or "" when
\* the session ends) and the effect on [user] runs: loadUserData for a user,
\* otherwise the four lists are emptied and loading is cleared
userChanges(u) ==
    /\ events < MaxEvents
    /\ u # user
    /\ user' = u
    /\ IF u # NoUser
       THEN /\ loadUserDataBegins(u)
            /\ UNCHANGED cacheVars
       ELSE /\ transactions' = <<>>
            /\ savingsGoals' = <<>>
            /\ budgetTargets' = <<>>
            /\ incomeStreams' = <<>>
            /\ loading' = FALSE
            /\ UNCHANGED <<loads, newBudget>>
    /\ events' = events + 1
    /\ UNCHANGED <<store, nextId, requests, dashVars, saved>>
    /\ UNCHANGED <<now, submitted>>
    /\ UNCHANGED smsVars
    /\ UNCHANGED formVars

\* Dashboard.handleSignOut (the page is rendered when loading is false):
\* signOut() ends the session, the effect on [user] empties the four lists
\* and clears loading, and the toast is shown
handleSignOut ==
    /\ events < MaxEvents
    /\ ~loading
    /\ user # NoUser
    /\ user' = NoUser
    /\ transactions' = <<>>
    /\ savingsGoals' = <<>>
    /\ budgetTargets' = <<>>
    /\ incomeStreams' = <<>>
    /\ loading' = FALSE
    /\ toasts' = Append(toasts, [title |-> "Signed out successfully", n |-> events + 1])
    /\ events' = events + 1
    /\ UNCHANGED <<store, nextId, loads, requests, showAddForm, showSmsParser,
                   saved>>
    /\ UNCHANGED <<now, submitted, newBudget>>
    /\ UNCHANGED smsVars
    /\ UNCHANGED formVars

----------------------------------------------------------------------------
(* useUserData's add, update and delete functions, called by Dashboard *)

\* the cached list of a table
cache(t) ==
    CASE t = "transactions" -> transactions
      [] t = "savings_goals" -> savingsGoals
      [] t = "budget_targets" -> budgetTargets
      [] t = "income_streams" -> incomeStreams

\* the setter of one list is called with `list`
cacheBecomes(t, list) ==
    /\ transactions' = IF t = "transactions" THEN list ELSE transactions
    /\ savingsGoals' = IF t = "savings_goals" THEN list ELSE savingsGoals
    /\ budgetTargets' = IF t = "budget_targets" THEN list ELSE budgetTargets
    /\ incomeStreams' = IF t = "income_streams" THEN list ELSE incomeStreams

\* the title of the toast a Dashboard handler shows when its call returned
SuccessTitle(via) ==
    CASE via \in {"addTransaction", "addParsedTransaction"} -> "Transaction added"
      [] via = "addGoal" -> "Goal created"
      [] via = "updateGoal" -> "Goal updated"
      [] via = "deleteGoal" -> "Goal deleted"
      [] via = "addBudget" -> "Budget created"
      [] via = "updateBudget" -> "Budget updated"
      [] via = "deleteBudget" -> "Budget deleted"
      [] via = "addIncome" -> "Income stream added"
      [] via = "updateIncome" -> "Income stream updated"
      [] via = "deleteIncome" -> "Income stream deleted"

\* the rest of the Dashboard handler `via` once the hook's function returned:
\* the success toast; addTransaction also closes the add form, and
\* addParsedTransaction, which awaits addTransaction, the SMS parser
Resolved(via, n) ==
    /\ toasts' = Append(toasts, [title |-> SuccessTitle(via), n |-> n])
    /\ showAddForm' = IF via \in {"addTransaction", "addParsedTransaction"}
                      THEN FALSE ELSE showAddForm
    /\ showSmsParser' = IF via = "addParsedTransaction"
                        THEN FALSE ELSE showSmsParser

\* the rest of the Dashboard handler `via` once the hook's function threw:
\* the handler's catch shows the error toast.  addTransaction does not throw
\* again, so addParsedTransaction goes on and closes the SMS parser.
Rejected(via, n) ==
    /\ toasts' = Append(toasts, [title |-> "Error", n |-> n])
    /\ showAddForm' = showAddForm
    /\ showSmsParser' = IF via = "addParsedTransaction"
                        THEN FALSE ELSE showSmsParser

\* A Dashboard handler (the page is rendered when loading is false) calls a
\* function of the hook.  Without a user the function returns at once and
\* the handler goes on; otherwise the call goes to the database keyed by the
\* user's id.
Send(via, op, t, id, cols) ==
    /\ events < MaxEvents
    /\ ~loading
    /\ events' = events + 1
    /\ IF user = NoUser
       THEN /\ Resolved(via, events + 1)
            /\ UNCHANGED requests
       ELSE /\ requests' = requests \cup
                   {[n |-> events + 1, via |-> via, op |-> op, table |-> t,
                     user |-> user, id |-> id, cols |-> cols,
                     status |-> "sent", data |-> Null]}
            /\ UNCHANGED dashVars
    /\ UNCHANGED <<user, store, nextId, cacheVars, loading, loads, saved>>
    /\ UNCHANGED <<now, submitted>>
    /\ UNCHANGED smsVars
    /\ UNCHANGED formVars

\* the handler is not BudgetTracker's submit: the add form of BudgetTracker
\* stays as it is
Call(via, op, t, id, cols) ==
    /\ Send(via, op, t, id, cols)
    /\ UNCHANGED newBudget

\* the list after the answer of the call r, with a new transaction put last
\* like the other new rows
AppliedLast(r, prev) ==
    CASE r.op = "insert" -> Append(prev, r.data[1])
      [] r.op = "update" ->
            [i \in 1..Len(prev) |->
                IF prev[i].id = r.id THEN r.data[1] ELSE prev[i]]
      [] r.op = "delete" -> SelectSeq(prev, LAMBDA row : row.id # r.id)

\* the list after the hook's function has applied the answer of the call r:
\* a new transaction goes first, any other new row last; an updated row
\* replaces the one with its id; a deleted row is filtered out
Applied(r, prev) ==
    CASE r.op = "insert" /\ r.table = "transactions" -> <<r.data[1]>> \o prev
      [] r.op = "insert" /\ r.table # "transactions" -> Append(prev, r.data[1])
      [] r.op = "update" ->
            [i \in 1..Len(prev) |->
                IF prev[i].id = r.id THEN r.data[1] ELSE prev[i]]
      [] r.op = "delete" -> SelectSeq(prev, LAMBDA row : row.id # r.id)

\* The answer of the call r reaches the hook's function: on an error it
\* throws, otherwise it updates the list from its latest value; then the
\* Dashboard handler goes on.
Settle(r) ==
    /\ r \in requests
    /\ r.status # "sent"
    /\ requests' = requests \ {r}
    /\ IF r.status = "ok"
       THEN /\ cacheBecomes(r.table, Applied(r, cache(r.table)))
            /\ saved' = IF r.op = "insert"
                        THEN saved \cup {<<r.table, r.data[1].id, r.user>>}
                        ELSE saved
            /\ Resolved(r.via, r.n)
       ELSE /\ UNCHANGED <<cacheVars, saved>>
            /\ Rejected(r.via, r.n)
    /\ UNCHANGED <<user, store, nextId, loading, loads, events>>
    /\ UNCHANGED <<now, submitted, newBudget>>
    /\ UNCHANGED smsVars
    /\ UNCHANGED formVars

----------------------------------------------------------------------------
(* Dashboard *)

\* a record AddTransactionForm.handleSubmit hands over:
\* 50, Food, Expense, Cash, "Lunch"
AddFormSample ==
    [amount |-> Negate(Abs(parseFloat(<<"5","0">>))),
     category |-> "Food",
     description |-> "Lunch",
     date |-> 0,
     paymentMethod |-> "Cash"]

\* a record SmsParserForm.handleSubmit hands over: "Ksh500", Other
SmsSample ==
    smsTransaction(parseMpesaSms(<<"K","s","h","5","0","0">>, 0)[1], "Other")

\* the record GoalTracker hands to onAddGoal
GoalSample ==
    [title |-> "Phone", targetAmount |-> 3, currentAmount |-> 0, deadline |-> 1]

\* amounts GoalTracker.handleAddMoney passes on (amount > 0)
GoalAmounts == {1, 2}

\* the record BudgetTracker hands to onAddBudget
BudgetSample == [category |-> "Food", monthlyLimit |-> 1, period |-> "monthly"]

\* limits BudgetTracker passes to onUpdateBudget
BudgetLimits == {2}

\* the record IncomeTracker hands to onAddIncome
IncomeSample ==
    [category |-> "Salary", description |-> "Salary income", amount |-> 1,
     frequency |-> "monthly", nextDate |-> 1, isActive |-> TRUE]

\* the ids of the rows a tracker lists
ShownIds(t) == {cache(t)[i].id : i \in 1..Len(cache(t))}

\* the Add Transaction and Parse SMS buttons, and the dialogs' Cancel
setShowAddForm(b) ==
    /\ ~loading
    /\ showAddForm # b
    /\ showAddForm' = b
    /\ UNCHANGED <<user, store, nextId, cacheVars, loading, loads, requests,
                   showSmsParser, toasts, events, saved>>
    /\ UNCHANGED <<now, submitted, newBudget>>
    /\ UNCHANGED smsVars
    /\ UNCHANGED formVars

setShowSmsParser(b) ==
    /\ ~loading
    /\ showSmsParser # b
    /\ showSmsParser' = b
    /\ UNCHANGED <<user, store, nextId, cacheVars, loading, loads, requests,
                   showAddForm, toasts, events, saved>>
    /\ UNCHANGED <<now, submitted, newBudget>>
    /\ UNCHANGED smsVars
    /\ UNCHANGED formVars

\* Dashboard.addTransaction, the onSubmit of the add form; the hook's
\* addTransaction inserts {...transaction, user_id}
Dashboard_addTransaction(transaction) ==
    /\ showAddForm
    /\ Call("addTransaction", "insert", "transactions", 0,
            [user_id |-> user] @@ transaction)

\* Dashboard.addParsedTransaction, the onSubmit of the SMS parser
addParsedTransaction(transaction) ==
    /\ showSmsParser
    /\ Call("addParsedTransaction", "insert", "transactions", 0,
            [user_id |-> user] @@ transaction)

addGoal(goal) ==
    Call("addGoal", "insert", "savings_goals", 0, [user_id |-> user] @@ goal)

\* a number read from a field of a row: a missing field is undefined, and
\* undefined plus a number is NaN
Plus(row, field, amount) ==
    IF field \in DOMAIN row THEN row[field] + amount ELSE "NaN"

\* Dashboard.updateGoal: the goal is looked up in the savingsGoals of the
\* render the handler belongs to, and its currentAmount plus the amount is
\* sent as the new current_amount
updateGoal(goalId, amount) ==
    /\ \E i \in 1..Len(savingsGoals) : savingsGoals[i].id = goalId
    /\ LET goal == savingsGoals[CHOOSE i \in 1..Len(savingsGoals) :
                        /\ savingsGoals[i].id = goalId
                        /\ \A j \in 1..(i - 1) : savingsGoals[j].id # goalId]
       IN Call("updateGoal", "update", "savings_goals", goalId,
               [current_amount |-> Plus(goal, "currentAmount", amount)])

deleteGoal(goalId) ==
    Call("deleteGoal", "delete", "savings_goals", goalId, <<>>)

addBudget(budget) ==
    Call("addBudget", "insert", "budget_targets", 0,
         [user_id |-> user, current_spent |-> 0] @@ budget)

updateBudget(budgetId, monthlyLimit) ==
    Call("updateBudget", "update", "budget_targets", budgetId,
         [monthly_limit |-> monthlyLimit])

deleteBudget(budgetId) ==
    Call("deleteBudget", "delete", "budget_targets", budgetId, <<>>)

addIncome(income) ==
    Call("addIncome", "insert", "income_streams", 0,
         [user_id |-> user] @@ income)

updateIncome(incomeId, updates) ==
    Call("updateIncome", "update", "income_streams", incomeId, updates)

deleteIncome(incomeId) ==
    Call("deleteIncome", "delete", "income_streams", incomeId, <<>>)

\* rows earlier sessions left in the database: a goal of each user and a
\* transaction of A
SeededStore ==
    [EmptyStore EXCEPT
        !["savings_goals"] = {[id |-> 1, user_id |-> "A"] @@ GoalSample,
                              [id |-> 2, user_id |-> "B"] @@ GoalSample},
        !["transactions"] = {[id |-> 3, user_id |-> "A"] @@ AddFormSample}]

\* Dashboard is mounted with nobody logged in, over an empty database or one
\* that earlier sessions have filled
InitDashboard ==
    /\ smsText = <<>>
    /\ parsedTransaction = Null
    /\ smsCategory = ""
    /\ now = 0
    /\ parseCalls = 0
    /\ prevParsed = Null
    /\ formAmount = <<>>
    /\ formCategory = ""
    /\ formIsIncome = FALSE
    /\ formPaymentMethod = "M-Pesa"
    /\ formDescription = ""
    /\ submitted = <<>>
    /\ store \in {EmptyStore, SeededStore}
    /\ HookInit

\* what happens whatever the user does on the page: the session changes,
\* the data is reloaded, the database answers and the answers arrive
NextSession ==
    \/ \E u \in Users \cup {NoUser} : userChanges(u)
    \/ handleSignOut
    \/ refreshData
    \/ \E l \in loads : LoadQuery(l)
    \/ \E l \in loads : LoadFinish(l)
    \/ \E r \in requests : Respond(r)
    \/ \E r \in requests : Settle(r)

NextDashboard ==
    \/ NextSession
    \/ \E b \in BOOLEAN : setShowAddForm(b)
    \/ \E b \in BOOLEAN : setShowSmsParser(b)
    \/ Dashboard_addTransaction(AddFormSample)
    \/ addParsedTransaction(SmsSample)
    \/ addGoal(GoalSample)
    \/ \E id \in ShownIds("savings_goals"), a \in GoalAmounts : updateGoal(id, a)
    \/ \E id \in ShownIds("savings_goals") : deleteGoal(id)
    \/ addBudget(BudgetSample)
    \/ \E id \in ShownIds("budget_targets"), m \in BudgetLimits : updateBudget(id, m)
    \/ \E id \in ShownIds("budget_targets") : deleteBudget(id)
    \/ addIncome(IncomeSample)
    \/ \E id \in ShownIds("income_streams") : updateIncome(id, [amount |-> 2])
    \/ \E id \in ShownIds("income_streams") : deleteIncome(id)

SpecDashboard == InitDashboard /\ [][NextDashboard]_vars

\* the savings goals tab alone
NextGoals ==
    \/ NextSession
    \/ addGoal(GoalSample)
    \/ \E id \in ShownIds("savings_goals"), a \in GoalAmounts : updateGoal(id, a)
    \/ \E id \in ShownIds("savings_goals") : deleteGoal(id)

SpecGoals == InitDashboard /\ [][NextGoals]_vars

\* records are added to the four tables, and goals deleted
NextAdds ==
    \/ NextSession
    \/ \E b \in BOOLEAN : setShowAddForm(b)
    \/ Dashboard_addTransaction(AddFormSample)
    \/ addGoal(GoalSample)
    \/ addBudget(BudgetSample)
    \/ addIncome(IncomeSample)
    \/ \E id \in ShownIds("savings_goals") : deleteGoal(id)

SpecAdds == InitDashboard /\ [][NextAdds]_vars

\* transactions are added, and goals added, updated and deleted
NextMutations ==
    \/ NextSession
    \/ \E b \in BOOLEAN : setShowAddForm(b)
    \/ Dashboard_addTransaction(AddFormSample)
    \/ addGoal(GoalSample)
    \/ \E id \in ShownIds("savings_goals"), a \in GoalAmounts : updateGoal(id, a)
    \/ \E id \in ShownIds("savings_goals") : deleteGoal(id)

SpecMutations == InitDashboard /\ [][NextMutations]_vars

----------------------------------------------------------------------------
(* BudgetTracker *)

\* the categories the user budgets, two of EXPENSE_CATEGORIES
BudgetCategories == {"Food", "Transport"}

\* the numbers typed into the Monthly Limit field of the add form
BudgetFormLimits == {1, 2}

\* the expense categories that no budget of the list has
availableCategories ==
    {c \in BudgetCategories :
        \A i \in 1..Len(budgetTargets) : budgetTargets[i].category # c}

\* the user opens the add form when it is closed and picks a category in
\* its select, which offers availableCategories
setNewBudget(category) ==
    /\ ~loading
    /\ category \in availableCategories
    /\ newBudget # category
    /\ newBudget' = category
    /\ UNCHANGED <<user, store, nextId, cacheVars, loading, loads, requests,
                   dashVars, events, saved>>
    /\ UNCHANGED <<now, submitted>>
    /\ UNCHANGED smsVars
    /\ UNCHANGED formVars

\* BudgetTracker.handleSubmit with monthlyLimit typed in: nothing without a
\* category; a budget of the list with the category is updated through
\* Dashboard.updateBudget, otherwise Dashboard.addBudget is called; the
\* handler awaits neither, resets the form and closes it
BudgetTracker_handleSubmit(monthlyLimit) ==
    /\ newBudget # ""
    /\ LET found == {i \in 1..Len(budgetTargets) :
                        budgetTargets[i].category = newBudget}
           existingBudget ==
               budgetTargets[CHOOSE i \in found : \A j \in found : i <= j]
       IN IF found # {}
          THEN Send("updateBudget", "update", "budget_targets",
                    existingBudget.id, [monthly_limit |-> monthlyLimit])
          ELSE Send("addBudget", "insert", "budget_targets", 0,
                    [user_id |-> user, current_spent |-> 0] @@
                    [category |-> newBudget, monthlyLimit |-> monthlyLimit,
                     period |-> "monthly"])
    /\ newBudget' = ""

\* the budgets tab: the add form, the edit field and the delete button of a
\* listed budget
NextBudgets ==
    \/ NextSession
    \/ \E c \in BudgetCategories : setNewBudget(c)
    \/ \E m \in BudgetFormLimits : BudgetTracker_handleSubmit(m)
    \/ \E id \in ShownIds("budget_targets"), m \in BudgetLimits : updateBudget(id, m)
    \/ \E id \in ShownIds("budget_targets") : deleteBudget(id)

SpecBudgets == InitDashboard /\ [][NextBudgets]_vars

----------------------------------------------------------------------------
(* The parser on messages of received money: what stands before            *)
(* 'received', between 'received' and 'from', the sender, and what follows *)

ReceivedHeads == {<<>>, <<"Y", "o", "u", " ", "h", "a", "v", "e", " ">>}

ReceivedBetweens == {
    <<"K", "s", "h", "5", "0", "0", " ">>,
    <<"K", "s", "h", "5", "0", "0", " ", "f", "o", "r", " ", "r", "e", "n", "t", " ">>,
    <<"m", "o", "n", "e", "y", " ", "K", "s", "h", "5", "0", "0", " ">>,
    <<"K", "s", "h", "1", ",", "2", "0", "0", ".", "0", "0", " ">>}

ReceivedSenders == {<<"J", "A", "N", "E">>, <<"J", "O", "H", "N", " ", "D", "O", "E">>}

ReceivedTails == {<<>>, <<".", " ", "N", "e", "w", " ", "b", "a", "l", "a", "n", "c", "e", " ", "K", "s", "h", "9", "0", "0">>, <<" ", "s", "e", "n", "t", " ", "t", "o", " ", "B", "O", "B">>}

ReceivedTexts ==
    {h \o <<"r", "e", "c", "e", "i", "v", "e", "d", " ">> \o b \o <<"f", "r", "o", "m", " ">> \o n \o e :
        h \in ReceivedHeads, b \in ReceivedBetweens,
        n \in ReceivedSenders, e \in ReceivedTails}

InitReceived ==
    /\ smsText \in ReceivedTexts
    /\ parsedTransaction = Null
    /\ smsCategory = ""
    /\ now = 0
    /\ parseCalls = 0
    /\ prevParsed = Null
    /\ formAmount = <<>>
    /\ formCategory = ""
    /\ formIsIncome = FALSE
    /\ formPaymentMethod = "M-Pesa"
    /\ formDescription = ""
    /\ submitted = <<>>
    /\ store = EmptyStore
    /\ HookInit

NextReceived == handleParse \/ Tick

SpecReceived == InitReceived /\ [][NextReceived]_vars

----------------------------------------------------------------------------
(* What the properties say about a text, stated without the parser *)

Ksh == <<"k","s","h">>

\* a currency token starts at i: "ksh", at most one white-space character,
\* then a digit or a thousands separator
TokenAt(s, i) ==
    /\ StartsWithAt(s, i, Ksh)
    /\ \/ (i + 3 <= Len(s) /\ s[i + 3] \in DigitOrComma)
       \/ (i + 4 <= Len(s) /\ s[i + 3] \in WhiteSpace /\ s[i + 4] \in DigitOrComma)

\* the literal of the token at i: digits and separators, then an optional
\* decimal point and digits
TokenLiteral(s, i) ==
    LET g == IF s[i + 3] \in WhiteSpace THEN i + 4 ELSE i + 3
        e1 == CHOOSE e \in g..(Len(s) + 1) :
                  /\ \A k \in g..(e - 1) : s[k] \in DigitOrComma
                  /\ (e = Len(s) + 1 \/ s[e] \notin DigitOrComma)
        e2 == IF e1 <= Len(s) /\ s[e1] = "." THEN e1 + 1 ELSE e1
        e3 == CHOOSE e \in e2..(Len(s) + 1) :
                  /\ \A k \in e2..(e - 1) : s[k] \in Digit
                  /\ (e = Len(s) + 1 \/ s[e] \notin Digit)
    IN SubSeq(s, g, e3 - 1)

HasDigit(lit) == \E k \in 1..Len(lit) : lit[k] \in Digit

HasToken(s) == \E i \in 1..Len(s) : TokenAt(s, i)

FirstToken(s) ==
    CHOOSE i \in 1..Len(s) : TokenAt(s, i) /\ \A k \in 1..(i - 1) : ~TokenAt(s, k)

\* the text holds a currency amount: a token whose literal has a digit
HasCurrencyAmount(s) ==
    \E i \in 1..Len(s) : TokenAt(s, i) /\ HasDigit(TokenLiteral(s, i))

RECURSIVE Pow10(_)
Pow10(n) == IF n = 0 THEN 1 ELSE 10 * Pow10(n - 1)

\* the decimal value of a literal, separators ignored, as <<v, k>> for
\* v / 10^k
LiteralValue(lit) ==
    LET dots == {k \in 1..Len(lit) : lit[k] = "."}
        frac == IF dots = {} THEN 0 ELSE Len(lit) - (CHOOSE k \in dots : TRUE)
        ds == SelectSeq(lit, LAMBDA c : c \in Digit)
        weight(k) == Pow10(Len(ds) - k)
        RECURSIVE Sum(_)
        Sum(k) == IF k = 0 THEN 0 ELSE Sum(k - 1) + DigitValue(ds[k]) * weight(k)
    IN <<Sum(Len(ds)), frac>>

\* x = v / 10^k
HasValue(x, vk) == ~x.nan /\ x.m * Pow10(vk[2]) = vk[1] * Pow10(x.e)

\* every currency token of the text is a number other than zero
PlainAmounts(s) ==
    \A i \in 1..Len(s) :
        TokenAt(s, i) => /\ HasDigit(TokenLiteral(s, i))
                         /\ LiteralValue(TokenLiteral(s, i))[1] > 0

Lowered == toLowerCase(smsText)
Called == parseCalls > 0
Result == parsedTransaction[1]

HasOutboundMarker(s) ==
    \/ includes(s, <<"s","e","n","t"," ","t","o">>)
    \/ includes(s, <<"p","a","y"," ","b","i","l","l">>)
    \/ includes(s, <<"b","u","y"," ","g","o","o","d","s">>)

HasInboundMarker(s) == includes(s, <<"r","e","c","e","i","v","e","d">>)

----------------------------------------------------------------------------
(* C1 *)

\* C1: after parseMpesaSms has run on a text that holds no 'ksh'
\* (case-insensitive) followed by a numeric literal, the result is null.
C1_NoMarkerNoResult ==
    (Called /\ ~HasCurrencyAmount(Lowered)) => parsedTransaction = Null

----------------------------------------------------------------------------
(* C2 *)

JohnFragment ==
    <<"K","s","h","1",",","2","0","0",".","0","0"," ","s","e","n","t"," ","t","o"," ","J","O","H","N">>

\* C2: for every text that contains "Ksh1,200.00 sent to JOHN" the result
\* has amount -1200.00 and a description that contains "JOHN".
C2_SentToJohn ==
    (Called /\ includes(smsText, JohnFragment))
        => /\ parsedTransaction # Null
           /\ Result.amount = Num(-1200)
           /\ includes(Result.description, <<"J","O","H","N">>)

----------------------------------------------------------------------------
(* C3 *)

\* "received ... from JANE": 'received', and later 'from JANE'
HasReceivedFromJane(s) ==
    \E i \in 1..Len(s), j \in 1..Len(s) :
        /\ StartsWithAt(s, i, <<"r","e","c","e","i","v","e","d">>)
        /\ j >= i + 8
        /\ StartsWithAt(s, j, <<"f","r","o","m"," ","J","A","N","E">>)

Ksh500 == <<"K","s","h","5","0","0">>

\* the first currency token of the text is the marker Ksh500, not continued
\* by a digit, a separator or a decimal fraction
FirstTokenIsKsh500(s) ==
    /\ HasToken(toLowerCase(s))
    /\ LET i == FirstToken(toLowerCase(s))
       IN /\ StartsWithAt(s, i, Ksh500)
          /\ (i + 6 <= Len(s) => s[i + 6] \notin DigitOrComma)
          /\ ~(i + 7 <= Len(s) /\ s[i + 6] = "." /\ s[i + 7] \in Digit)

\* C3 as stated: for every text that contains "received ... from JANE" and
\* the marker "Ksh500", wherever the marker sits and whatever else the text
\* holds, the result has amount +500.00.  (Taken on the texts whose amounts
\* are all non-zero numbers: the NaN of C7 plays no part in the failure.)
C3_ReceivedAnywhere ==
    (/\ Called
     /\ HasReceivedFromJane(smsText)
     /\ includes(smsText, Ksh500)
     /\ PlainAmounts(Lowered))
        => (parsedTransaction # Null /\ Result.amount = Num(500))

\* C3, amended: for every text that contains "received ... from JANE" and
\* whose first currency token is the marker "Ksh500" (not continued by a
\* digit, a separator or a decimal fraction), the result has amount +500.00.
C3_ReceivedFirstToken ==
    (Called /\ HasReceivedFromJane(smsText) /\ FirstTokenIsKsh500(smsText))
        => (parsedTransaction # Null /\ Result.amount = Num(500))

\* a text with "received ... from JANE", Ksh500 as its first token and more
\* text around it has been parsed
C3_Witness ==
    /\ Called
    /\ HasReceivedFromJane(smsText)
    /\ FirstTokenIsKsh500(smsText)
    /\ Len(smsText) > 25
    /\ parsedTransaction # Null

----------------------------------------------------------------------------
(* C4 *)

----------------------------------------------------------------------------
(* C5 *)

\* C5: for every text with a currency amount and an outbound marker
\* ('sent to', 'pay bill', 'buy goods'), also one that holds 'received' as
\* well, the parsed amount is negative.  (Taken on the texts whose amounts
\* are all non-zero numbers: neither the NaN of C7 nor a zero amount plays
\* a part in the failure.)
C5_OutboundNegative ==
    (/\ Called
     /\ HasCurrencyAmount(Lowered)
     /\ HasOutboundMarker(Lowered)
     /\ PlainAmounts(Lowered))
        => (parsedTransaction # Null /\ IsNegative(Result.amount))

----------------------------------------------------------------------------
(* C6 *)

\* C6: for every text with a currency amount and none of the direction
\* keywords, the parsed amount is negative.
C6_DefaultNegative ==
    (/\ Called
     /\ HasCurrencyAmount(Lowered)
     /\ ~HasOutboundMarker(Lowered)
     /\ ~HasInboundMarker(Lowered))
        => (parsedTransaction # Null /\ IsNegative(Result.amount))

----------------------------------------------------------------------------
(* C7 *)

\* C7: the result is null exactly when the text holds no currency amount,
\* and the amount of every result is a number, never NaN.
C7_NullIffNoAmount ==
    Called =>
        /\ (parsedTransaction = Null) <=> ~HasCurrencyAmount(Lowered)
        /\ parsedTransaction # Null => ~Result.amount.nan

----------------------------------------------------------------------------
(* C8 *)

\* C8: the magnitude of the parsed amount is the value of the numeric
\* literal of the first Ksh token of the text with every comma removed,
\* whatever amounts follow it in the text.
C8_SeparatorsStripped ==
    (/\ Called
     /\ HasToken(Lowered)
     /\ HasDigit(TokenLiteral(Lowered, FirstToken(Lowered))))
        => /\ parsedTransaction # Null
           /\ HasValue(Abs(Result.amount),
                       LiteralValue(TokenLiteral(Lowered, FirstToken(Lowered))))

\* a literal with a separator was parsed from a text that holds a later
\* amount as well
C8_Witness ==
    /\ Called
    /\ HasToken(Lowered)
    /\ LET i == FirstToken(Lowered)
           lit == TokenLiteral(Lowered, i)
       IN /\ HasDigit(lit)
          /\ \E k \in 1..Len(lit) : lit[k] = ","
          /\ \E j \in (i + 1)..Len(Lowered) : TokenAt(Lowered, j)
    /\ parsedTransaction # Null

----------------------------------------------------------------------------
(* C9 *)

\* the phrase "<lit><something other than a period>" occurs in s
PhraseAt(s, i, lit) ==
    /\ StartsWithAt(s, i, lit)
    /\ i + Len(lit) <= Len(s)
    /\ s[i + Len(lit)] # "."

HasPhrase(s, lit) == \E i \in 1..Len(s) : PhraseAt(s, i, lit)

\* what follows the position g up to the next period, trimmed
UpToPeriod(s, g) ==
    LET e == CHOOSE e \in g..(Len(s) + 1) :
                 /\ \A k \in g..(e - 1) : s[k] # "."
                 /\ (e = Len(s) + 1 \/ s[e] = ".")
    IN trim(SubSeq(s, g, e - 1))

PhraseTarget(s, lit) ==
    LET i == CHOOSE i \in 1..Len(s) :
                 PhraseAt(s, i, lit) /\ \A k \in 1..(i - 1) : ~PhraseAt(s, k, lit)
    IN UpToPeriod(s, i + Len(lit))

\* 'received', then characters other than f, r, o, m, then 'from ' and a
\* sender
ReceivedPhraseAt(s, i) ==
    /\ StartsWithAt(s, i, <<"r","e","c","e","i","v","e","d">>)
    /\ \E f \in (i + 8)..Len(s) :
          /\ \A k \in (i + 8)..(f - 1) : s[k] \notin {"f", "r", "o", "m"}
          /\ PhraseAt(s, f, <<"f","r","o","m"," ">>)

HasReceivedPhrase(s) == \E i \in 1..Len(s) : ReceivedPhraseAt(s, i)

ReceivedSender(s) ==
    LET i == CHOOSE i \in 1..Len(s) :
                 ReceivedPhraseAt(s, i) /\ \A k \in 1..(i - 1) : ~ReceivedPhraseAt(s, k)
        f == CHOOSE f \in (i + 8)..Len(s) :
                 /\ \A k \in (i + 8)..(f - 1) : s[k] \notin {"f", "r", "o", "m"}
                 /\ PhraseAt(s, f, <<"f","r","o","m"," ">>)
    IN UpToPeriod(s, f + 5)

SentToLit == <<"s","e","n","t"," ","t","o"," ">>
PayBillForLit == <<"p","a","y"," ","b","i","l","l"," ","f","o","r"," ">>

IsPrefix(p, s) == Len(p) <= Len(s) /\ SubSeq(s, 1, Len(p)) = p

\* the number of the four description forms that d has
FormsOf(d) ==
    Cardinality({n \in 1..4 :
        \/ (n = 1 /\ IsPrefix(SentToPrefix, d))
        \/ (n = 2 /\ IsPrefix(ReceivedFromPrefix, d))
        \/ (n = 3 /\ IsPrefix(PayBillPrefix, d))
        \/ (n = 4 /\ d = GenericDescription)})

\* C9: the description of every result is 'Sent to <recipient>' if a
\* sent-to phrase occurs, else 'Received from <sender>' if a received-from
\* phrase occurs, else 'Pay bill: <target>' if a paybill phrase occurs, else
\* 'M-Pesa transaction'; it has exactly one of the four forms.
C9_DescriptionPriority ==
    (Called /\ parsedTransaction # Null) =>
        /\ Result.description =
              IF HasPhrase(Lowered, SentToLit)
              THEN SentToPrefix \o PhraseTarget(Lowered, SentToLit)
              ELSE IF HasReceivedPhrase(Lowered)
              THEN ReceivedFromPrefix \o ReceivedSender(Lowered)
              ELSE IF HasPhrase(Lowered, PayBillForLit)
              THEN PayBillPrefix \o PhraseTarget(Lowered, PayBillForLit)
              ELSE GenericDescription
        /\ FormsOf(Result.description) = 1

\* a text with both a sent-to and a received-from phrase was parsed
C9_Witness ==
    /\ Called
    /\ parsedTransaction # Null
    /\ HasPhrase(Lowered, SentToLit)
    /\ HasReceivedPhrase(Lowered)
    /\ IsPrefix(SentToPrefix, Result.description)

----------------------------------------------------------------------------
(* C10 *)

\* C10: every record created as income has amount > 0 and every record
\* created as expense has amount < 0; no record has amount 0.
C10_SignEncodesType ==
    \A i \in 1..Len(submitted) :
        IF submitted[i].asIncome
        THEN IsPositive(submitted[i].transaction.amount)
        ELSE IsNegative(submitted[i].transaction.amount)

----------------------------------------------------------------------------
(* C13 *)

\* C13: when the parser returns no result, the form enters a visible state
\* that tells the user nothing was recognised: after a parse that returned
\* null the form does not render what it renders for the same text when
\* Parse SMS was never pressed.
C13_NoResultIsShown ==
    (Called /\ parsedTransaction = Null)
        => SmsParserFormView(smsText, parsedTransaction, smsCategory)
               # SmsParserFormView(smsText, Null, "")

----------------------------------------------------------------------------
(* C14 *)

\* C14: every non-null parse result carries the label 'M-Pesa', and every
\* transaction SmsParserForm submits has payment method 'M-Pesa'.
C14_AlwaysMpesa ==
    /\ parsedTransaction # Null => Result.payment_method = "M-Pesa"
    /\ \A i \in 1..Len(submitted) :
          submitted[i].form = "sms"
              => submitted[i].transaction.payment_method = "M-Pesa"

\* a parsed transaction was submitted from the SMS form
C14_Witness ==
    /\ parsedTransaction # Null
    /\ \E i \in 1..Len(submitted) : submitted[i].form = "sms"

----------------------------------------------------------------------------
(* C11 *)

\* every cached row of every list belongs to the user u
CacheOwnedBy(u) ==
    \A t \in Tables : \A i \in 1..Len(cache(t)) : cache(t)[i].user_id = u

\* C11: in every reachable state, loads in flight while the user changes
\* included, the cached transactions, goals, budgets and income streams
\* belong to the logged-in user, and the four lists are empty when nobody is
\* logged in.
C11_CacheOfCurrentUser ==
    /\ CacheOwnedBy(user)
    /\ user = NoUser => \A t \in Tables : cache(t) = <<>>

----------------------------------------------------------------------------
(* C12 *)

\* the call r is answered by the database in this step
Answered(r) == r \in requests /\ r.status = "sent" /\ r \notin requests'

\* C12: every read, update and delete is keyed by the owning user, and every
\* update and delete by the record id as well.  A row is changed or removed
\* only by an update or a delete of its owner that names its id; a row
\* appears only through an insert, or such an update, of its owner; and a
\* load holds rows of its own user only.
C12_KeyedByOwnerAndId ==
    [][/\ \A t \in Tables : \A row \in store[t] \ store'[t] :
              \E r \in requests :
                  /\ Answered(r)
                  /\ r.op \in {"update", "delete"}
                  /\ r.table = t
                  /\ r.user = row.user_id
                  /\ r.id = row.id
       /\ \A t \in Tables : \A row \in store'[t] \ store[t] :
              \E r \in requests :
                  /\ Answered(r)
                  /\ r.table = t
                  /\ r.user = row.user_id
                  /\ r.op = "insert" \/ (r.op = "update" /\ r.id = row.id)
       /\ \A l \in loads' : \A t \in Tables : \A i \in 1..Len(l.data[t]) :
              l.data[t][i].user_id = l.user]_vars

\* an update or a delete that named the id of another user's row has been
\* answered, and a load has read rows
C12_Witness ==
    /\ \E r \in requests :
          /\ r.op \in {"update", "delete"}
          /\ r.status # "sent"
          /\ \E row \in store[r.table] : row.id = r.id /\ row.user_id # r.user
    /\ \E t \in Tables : cache(t) # <<>>

----------------------------------------------------------------------------
(* C15 *)

\* the load l replaces the lists in this step
Finishes(l) == l \in loads /\ l.pc > Len(LoadOrder) /\ l \notin loads'

----------------------------------------------------------------------------
(* C16 *)

\* C16: every row addTransaction inserts fits the documented transactions
\* table: it supplies user_id, amount, category and a type that is 'income'
\* or 'expense', and names no column the table does not have.
C16_InsertFitsTable ==
    \A r \in requests :
        (r.op = "insert" /\ r.table = "transactions")
            => TransactionsAccepts(r.cols)

----------------------------------------------------------------------------
(* C17 *)

\* C17: when two updateGoal calls for the same goal are in flight together,
\* the second issued before the first completed, and both have succeeded,
\* the goal's current amount is the original amount plus both amounts.
\* Each call sent the amount the page showed plus its own amount, so the sum
\* of the two values sent less the amount shown is what the store must hold.
C17_BothUpdatesCount ==
    \A r1, r2 \in requests :
        (/\ r1.n < r2.n
         /\ r1.via = "updateGoal" /\ r2.via = "updateGoal"
         /\ r1.id = r2.id /\ r1.user = r2.user
         /\ r1.status = "ok" /\ r2.status = "ok")
            => \A i \in 1..Len(savingsGoals) :
                  savingsGoals[i].id = r1.id
                      => \A row \in store["savings_goals"] :
                            row.id = r1.id
                                => row.current_amount
                                       = r1.cols.current_amount
                                         + r2.cols.current_amount
                                         - savingsGoals[i].currentAmount

----------------------------------------------------------------------------
(* C18 *)

\* the ids in a list, and whether an id is listed twice
IdsOf(list) == {list[i].id : i \in 1..Len(list)}
HasNoIdTwice(list) ==
    \A i, j \in 1..Len(list) : list[i].id = list[j].id => i = j

\* the answer of the call r reaches the hook's function in this step
Settles(r) == r \in requests /\ r.status # "sent" /\ r \notin requests'

\* C18: when addTransaction overlaps with loadUserData for the same user,
\* then once everything in flight has finished the cached transactions are
\* exactly the user's transactions in the store, the added one present and
\* no id twice.  Stated for the step that finishes last: a load of the
\* logged-in user that completes with nothing else in flight leaves exactly
\* the user's stored transactions, and an addTransaction of the logged-in
\* user that returns with nothing else in flight leaves its record in the
\* list and no id twice.
C18_CacheMatchesStore ==
    [][/\ \A l \in loads :
              (Finishes(l) /\ l.user = user /\ loads' = {} /\ requests' = {})
                  => /\ IdsOf(transactions')
                          = {row.id : row \in
                                {x \in store'["transactions"] : x.user_id = user}}
                     /\ HasNoIdTwice(transactions')
       /\ \A r \in requests :
              (/\ Settles(r)
               /\ r.status = "ok" /\ r.op = "insert" /\ r.table = "transactions"
               /\ r.user = user /\ loads' = {} /\ requests' = {})
                  => /\ r.data[1].id \in IdsOf(transactions')
                     /\ HasNoIdTwice(transactions')]_vars

----------------------------------------------------------------------------
(* C19 *)

\* C19: when saving a parsed SMS transaction fails, the error is reported
\* once and the SMS parser stays open; the handler closes the dialog only
\* after the transaction was saved.
C19_FailedSaveKeepsDialog ==
    [][\A r \in requests :
          (Settles(r) /\ r.via = "addParsedTransaction")
              => /\ r.status = "error"
                    => /\ showSmsParser' = showSmsParser
                       /\ toasts' = Append(toasts, [title |-> "Error", n |-> r.n])
                 /\ (showSmsParser /\ ~showSmsParser') => r.status = "ok"]_vars

----------------------------------------------------------------------------
(* C20 *)

\* C20: Dashboard.addTransaction shows the 'Transaction added' toast and
\* closes the add form only if the transaction was inserted: every such
\* toast belongs to a call whose row the store took, and the handler closes
\* the form for such a call only.
C20_SuccessOnlyIfInserted ==
    [][/\ \A i \in 1..Len(toasts') :
              (i > Len(toasts) /\ toasts'[i].title = "Transaction added")
                  => \E r \in requests :
                        /\ Settles(r) /\ r.n = toasts'[i].n /\ r.status = "ok"
                        /\ r.data[1] \in store["transactions"]
       /\ (showAddForm /\ ~showAddForm' /\ toasts' # toasts)
              => \E r \in requests :
                    /\ Settles(r) /\ r.status = "ok"
                    /\ r.data[1] \in store["transactions"]]_vars

----------------------------------------------------------------------------
(* C21 *)

\* the positions of `prev` whose entry has another id than `id`
KeptPositions(prev, id) == {i \in 1..Len(prev) : prev[i].id # id}

\* `next` is `prev` with the record put first
IsPrepended(prev, next, record) ==
    /\ Len(next) = Len(prev) + 1
    /\ next[1] = record
    /\ \A i \in 1..Len(prev) : next[i + 1] = prev[i]

\* `next` is `prev` with the record put last
IsAppended(prev, next, record) ==
    /\ Len(next) = Len(prev) + 1
    /\ next[Len(next)] = record
    /\ \A i \in 1..Len(prev) : next[i] = prev[i]

\* `next` is `prev` with the record in the place of the entries with the id
IsReplaced(prev, next, id, record) ==
    /\ Len(next) = Len(prev)
    /\ \A i \in 1..Len(prev) :
          next[i] = IF prev[i].id = id THEN record ELSE prev[i]

\* `next` is `prev` without the entries with the id, the others in their order
IsRemoved(prev, next, id) ==
    /\ Len(next) = Cardinality(KeptPositions(prev, id))
    /\ \A i \in KeptPositions(prev, id) :
          next[Cardinality({j \in KeptPositions(prev, id) : j <= i})] = prev[i]

\* C21: a step in which a call is sent to the store or answered by it leaves
\* the four cached lists as they are.  When the answer of a call reaches the
\* hook's function: after a success the returned record is first in the
\* transactions or last in the other lists (add), stands in the place of the
\* entry with its id (update), or the entry with the id is gone (delete),
\* every other entry keeps its value and order and the other three lists are
\* unchanged; after an error the four lists are unchanged and the caller
\* catches the error, which shows as its "Error" toast.
C21_CacheFollowsStore ==
    [][/\ (requests' \ requests # {}) => UNCHANGED cacheVars
       /\ \A r \in requests : Settles(r) =>
            IF r.status = "ok"
            THEN /\ CASE r.op = "insert" /\ r.table = "transactions" ->
                            IsPrepended(cache(r.table), cache(r.table)', r.data[1])
                      [] r.op = "insert" /\ r.table # "transactions" ->
                            IsAppended(cache(r.table), cache(r.table)', r.data[1])
                      [] r.op = "update" ->
                            IsReplaced(cache(r.table), cache(r.table)', r.id, r.data[1])
                      [] r.op = "delete" ->
                            IsRemoved(cache(r.table), cache(r.table)', r.id)
                 /\ \A t \in Tables \ {r.table} : cache(t)' = cache(t)
            ELSE /\ UNCHANGED cacheVars
                 /\ toasts' = Append(toasts, [title |-> "Error", n |-> r.n])
      ]_vars

\* a goal was added to a list that had one, and then one of the two was
\* updated
C21_Witness ==
    /\ Len(savingsGoals) >= 2
    /\ \E i \in 1..Len(toasts) : toasts[i].title = "Goal created"
    /\ \E i \in 1..Len(toasts) : toasts[i].title = "Goal updated"

----------------------------------------------------------------------------
(* C22 *)

\* the call l of loadUserData gets an answer to one of its queries
Queried(l) == l \in loads /\ l.pc <= Len(LoadOrder) /\ l \notin loads'

\* the call l of loadUserData is over after this step
Over(l) == l \in loads /\ \A k \in loads' : k.n # l.n

\* C22: a step in which one of the four queries of a loadUserData call is
\* answered, with rows or with an error, leaves the four cached lists as they
\* are; only the step after the fourth answer sets them, all four to the
\* answers of that call; and in every step that ends a call, by an error or
\* after the fourth answer, loading becomes false.
C22_LoadAllOrNothing ==
    [][\A l \in loads :
          /\ Queried(l) => UNCHANGED cacheVars
          /\ Finishes(l) => \A t \in Tables : cache(t)' = l.data[t]
          /\ Over(l) => ~loading'
      ]_vars

\* user A has signed in, nothing else was done, the load is over, and the
\* lists are empty although the database has rows of A: a query has failed
C22_Witness ==
    /\ user = "A"
    /\ events = 1
    /\ loads = {}
    /\ ~loading
    /\ \E row \in store["transactions"] : row.user_id = "A"
    /\ \E row \in store["savings_goals"] : row.user_id = "A"
    /\ \A t \in Tables : cache(t) = <<>>

----------------------------------------------------------------------------
(* C23 *)

\* C23: in every reachable state no two rows of the budget targets table
\* that belong to the same user have the same category, and no two entries
\* of the cached budget list have.
C23_OneBudgetPerCategory ==
    /\ \A a, b \in store["budget_targets"] :
          (a.user_id = b.user_id /\ a.category = b.category) => a = b
    /\ \A i, j \in 1..Len(budgetTargets) :
          budgetTargets[i].category = budgetTargets[j].category => i = j

----------------------------------------------------------------------------
(* C24 *)

ReceivedLit == <<"r","e","c","e","i","v","e","d">>
FromLit == <<"f","r","o","m"," ">>

\* 'received' occurs at i and 'from <sender>' at f, after it and before the
\* first period of the text
ReceivedThenFromAt(s, i, f) ==
    /\ StartsWithAt(s, i, ReceivedLit)
    /\ f >= i + Len(ReceivedLit)
    /\ PhraseAt(s, f, FromLit)
    /\ \A k \in 1..f : s[k] # "."

\* the sender of the first such 'from' after the first 'received'
SenderAfterReceived(s) ==
    LET i == CHOOSE i \in 1..Len(s) :
                 /\ \E f \in 1..Len(s) : ReceivedThenFromAt(s, i, f)
                 /\ \A k \in 1..(i - 1) :
                        \A f \in 1..Len(s) : ~ReceivedThenFromAt(s, k, f)
        f == CHOOSE f \in 1..Len(s) :
                 /\ ReceivedThenFromAt(s, i, f)
                 /\ \A k \in 1..(f - 1) : ~ReceivedThenFromAt(s, i, k)
    IN UpToPeriod(s, f + Len(FromLit))

\* C24: for a text that contains 'received', later 'from <sender>' before
\* the first period, and no 'sent to' phrase, the description of the result
\* is 'Received from <sender>', whatever stands between 'received' and
\* 'from'.  The sender is compared as the parser reads it, in lower case.
C24_ReceivedFromAnyWords ==
    (/\ Called
     /\ parsedTransaction # Null
     /\ \E i, f \in 1..Len(Lowered) : ReceivedThenFromAt(Lowered, i, f)
     /\ ~HasPhrase(Lowered, SentToLit))
        => Result.description = ReceivedFromPrefix \o SenderAfterReceived(Lowered)

====
